---- MODULE Spec2Model ----
(***************************************************************************)
(* NetNews feed ingestion and summarization pipeline (src/core/main.py):   *)
(* main, cleanup_old_entries, generate_summaries and get_summary_from_AI,  *)
(* over an SQLite table `news`, a feed fetcher and a summarization service.*)
(***************************************************************************)
EXTENDS Integers, Sequences, FiniteSets, TLC

\* ------------------------------------------------------------------ bounds
\* Calendar days are 0..MaxDay.
MaxDay == 1
\* story_limit (num_entries of a feed task) ranges over 0..MaxLimit.
MaxLimit == 3
\* main's max_retries ranges over 0..MaxRetries.
MaxRetries == 2
\* max_retries given to the summarizer alone ranges over 0..MaxCallRetries.
MaxCallRetries == 4
\* Texts given to the summarizer alone are up to max_length + MaxExtra long.
MaxExtra == 1
\* retry_delay given to the summarizer alone ranges over 1..MaxDelay.
MaxDelay == 2

\* -------------------------------------------------------- program constants
\* max_length = 4000
max_length == 4000
\* int(os.getenv('FEED_TIMEOUT', '30'))
feed_timeout == 30
\* retry_delay=2, the default generate_summaries leaves in place
default_retry_delay == 2

\* Python's None, where the other values are strings
None == "None"

VARIABLES
    pc,             \* where the program stands
    today,          \* the UTC calendar day (SQLite's CURRENT_DATE)
    db,             \* the committed rows of table news, in id order
    txn,            \* rows the open connection inserted and has not committed
    socket_timeout, \* socket.getdefaulttimeout() of the process
    max_retries,    \* main's max_retries
    feed_tasks,     \* main's feed_tasks
    task_idx,       \* position of main's for loop over feed_tasks
    cl,             \* cleanup_old_entries' locals and result
    gs,             \* generate_summaries' locals
    ai,             \* get_summary_from_AI's locals
    ai_trace,       \* what the current get_summary_from_AI call did, in order
    hist            \* what the current run did (observation only)

vars == <<pc, today, db, txn, socket_timeout, max_retries, feed_tasks,
          task_idx, cl, gs, ai, ai_trace, hist>>

\* ------------------------------------------------------------------- texts
\* A text of n characters; the characters differ by position.
Text(n) == [i \in 1..n |-> i % 7]

\* the cap of the text sent to the service (variants keep the tail, or cut
\* one character early)
TruncateTail(text) ==
    IF Len(text) > max_length
    THEN SubSeq(text, Len(text) - max_length + 1, Len(text))
    ELSE text

TruncateOffByOne(text) ==
    IF Len(text) >= max_length THEN SubSeq(text, 1, max_length - 1) ELSE text

\* if len(text) > max_length: text = text[:max_length]
Truncate(text) ==
    IF Len(text) > max_length THEN SubSeq(text, 1, max_length) ELSE text

\* ------------------------------------------------- the summarization service
\* response.choices[0].message.content of a response that arrives
Contents == {"", "abstract", None}

\* A call either raises (any exception) or returns a response.
ServiceOutcomes ==
    {[raised |-> TRUE, content |-> None]}
        \cup {[raised |-> FALSE, content |-> c] : c \in Contents}

CallEvent(text, out) == [ev |-> "call", text |-> text, out |-> out, delay |-> 0]
SleepEvent(d) ==
    [ev |-> "sleep", text |-> <<>>, out |-> [raised |-> TRUE, content |-> None],
     delay |-> d]

\* get_summary_from_AI's locals; arg and arg_delay are the text and the
\* retry_delay it was called with.
NoFrame == [text |-> <<>>, attempt |-> 0, retry_delay |-> 0, max_retries |-> 0,
            result |-> None, arg |-> <<>>, arg_delay |-> 0]

\* get_summary_from_AI up to its loop: the text is capped, attempt starts at 0.
AI_Enter(text, mr, delay) ==
    [text |-> Truncate(text), attempt |-> 0, retry_delay |-> delay,
     max_retries |-> mr, result |-> None, arg |-> text, arg_delay |-> delay]

\* range(max_retries) is empty for max_retries <= 0: the function falls off its
\* end and returns None.
AI_EntryPc(mr) == IF mr > 0 THEN "ai_attempt" ELSE "ai_done"

\* ------------------------------------------------------------------- feeds
\* An entry of a parsed feed; has_x is hasattr(entry, 'x').
Entry(ht, t, hd, d, hl, l) ==
    [has_title |-> ht, title |-> t, has_description |-> hd, description |-> d,
     has_link |-> hl, link |-> l]

\* What each feed URL serves.  Feed "a" repeats a title; feed "b" serves a
\* title of feed "a", without a link, and an entry without a description.
FeedNames == <<"a", "b">>
FeedContent(url) ==
    IF url = "a"
    THEN << Entry(TRUE, "t1", TRUE, Text(1), TRUE, "l1"),
            Entry(TRUE, "t2", TRUE, Text(2), TRUE, "l2"),
            Entry(TRUE, "t1", TRUE, Text(3), TRUE, "l1") >>
    ELSE << Entry(TRUE, "t2", TRUE, Text(2), FALSE, ""),
            Entry(TRUE, "t3", FALSE, <<>>, TRUE, "l3") >>

\* feed_tasks.append((key, url, int(num_entries)))
Task(key, n) == [key |-> key, url |-> key, num_entries |-> n]

\* The feed_tasks main can build: the configured feeds in their order, those
\* not selected with --feeds left out, each with its story limit.
TaskLists ==
    {<<>>}
        \cup {<<Task(FeedNames[k], n)>> : k \in 1..2, n \in 0..MaxLimit}
        \cup {<<Task(FeedNames[1], n), Task(FeedNames[2], m)>> :
                 n \in 0..MaxLimit, m \in 0..MaxLimit}

Min(x, y) == IF x < y THEN x ELSE y

\* ---------------------------------------------------------------- the store
\* INSERT INTO news (feed, title, link, summary); created_date defaults to
\* CURRENT_DATE.
Row(feed, title, link, summary, day) ==
    [feed |-> feed, title |-> title, link |-> link, summary |-> summary,
     created_date |-> day]

\* What the open connection reads: the committed rows and its own pending ones.
Visible == db \o txn

\* SELECT 1 FROM news WHERE title = ?  ... fetchone() is not None
\* (variants: the committed rows only; the rows of the same feed only; the
\* title compared with the link column)
TitleExistsCommitted(rows, feed, title) ==
    \E k \in 1..Len(db) : db[k].title = title

TitleExistsByLink(rows, feed, title) ==
    \E k \in 1..Len(rows) : rows[k].link = title

TitleExistsInFeed(rows, feed, title) ==
    \E k \in 1..Len(rows) : rows[k].title = title /\ rows[k].feed = feed

TitleExists(rows, feed, title) ==
    \E k \in 1..Len(rows) : rows[k].title = title

\* datetime.now(): the local wall clock, whose date is within a day of the UTC
\* date; tod is the time of day.
LocalNow == {[day |-> today + off, tod |-> t] : off \in {-1, 0, 1}, t \in {0, 1}}

\* datetime.now() - timedelta(days=days_to_keep)
MinusDays(now, days) == [now EXCEPT !.day = @ - days]

\* .strftime('%Y-%m-%d'): the date, the time of day dropped   (variant: the
\* date rounded to the nearer midnight)
StrftimeRounded(dt) == dt.day + dt.tod

StrftimeDate(dt) == dt.day

\* WHERE date(created_date) < date(?)   (variant: <=)
IsOldInclusive(row, cutoff_date) == row.created_date <= cutoff_date

IsOld(row, cutoff_date) == row.created_date < cutoff_date

\* days_to_keep: --retention or RETENTION_DAYS, any integer
DaysChoices == (0 - 1)..(MaxDay + 1)

\* cleanup_old_entries' locals and result; before is the table as the call
\* found it, earlier the results of the earlier calls of the process.
NoCleanup == [days_to_keep |-> 0, now |-> [day |-> 0, tod |-> 0],
              cutoff_date |-> 0, deleted_count |-> 0, before |-> <<>>,
              called |-> FALSE, earlier |-> <<>>]

\* ------------------------------------------------------------ initial state
\* socket.getdefaulttimeout() of a fresh process: None
NoTimeout == <<>>

\* generate_summaries' arguments and locals; rows0 is the number of committed
\* rows when it was called, checked, summarized and stored the positions of
\* the entries whose title was looked up, that were given to the summarizer,
\* and for which the INSERT was executed.
NoGs == [feed_name |-> "", feed_url |-> "", num_stories |-> 0, entries |-> <<>>,
         i |-> 0, processed |-> 0, skipped |-> 0, failed |-> 0, added |-> 0,
         original_timeout |-> NoTimeout, outcome |-> "none",
         checked |-> {}, summarized |-> {}, stored |-> {}, rows0 |-> 0]

NoPrev == [done |-> FALSE, served |-> FALSE, clean |-> FALSE, tasks |-> <<>>,
           max_retries |-> 0]

\* hist observes one run: whether the credential was there (api_key), where
\* the calls are counted (metered; they are in the specification of one run)
\* how often the service was called (calls) and the sum over the feeds
\* fetched of min(story limit, entries served) (budget), how often the purge
\* ran, which
\* tasks were fetched,
\* whether a feed ended in a timeout, an error or an exception (broken),
\* whether every feed so far served its entries and logged its stats
\* (served), and with failed == 0 (clean), the rows committed, whether the
\* purge removed one of them; and prev, how the run before ended, until the
\* clock moves.
NoHist == [api_key |-> TRUE, metered |-> FALSE, calls |-> 0, budget |-> 0,
           purges |-> 0, fetched |-> <<>>, broken |-> FALSE, served |-> TRUE,
           clean |-> TRUE,
           inserted |-> 0, purged_new |-> FALSE, rerun |-> "no",
           prev |-> NoPrev]

\* The observation after service calls and a fetch allowing for entries more.
Counted(h, calls, entries) ==
    IF h.metered
    THEN [h EXCEPT !.calls = @ + calls, !.budget = @ + entries]
    ELSE h

Init ==
    /\ pc = "idle"
    /\ today = 0
    /\ db = <<>>
    /\ txn = <<>>
    /\ socket_timeout = NoTimeout
    /\ max_retries = 0
    /\ feed_tasks = <<>>
    /\ task_idx = 0
    /\ cl = NoCleanup
    /\ gs = NoGs
    /\ ai = NoFrame
    /\ ai_trace = <<>>
    /\ hist = NoHist

\* ------------------------------------------------------ get_summary_from_AI
\* if attempt < max_retries - 1   (variant: one retry more)
CanRetryOnceMore(attempt, mr) == attempt < mr

CanRetry(attempt, mr) == attempt < mr - 1

\* retry_delay *= 2   (variant: the delay stays)
NextDelayFixed(d) == d

NextDelay(d) == d * 2

\* client.chat.completions.create(...) returns; return ...message.content
AI_Success ==
    /\ pc = "ai_attempt"
    /\ \E c \in Contents :
          /\ ai' = [ai EXCEPT !.result = c]
          /\ ai_trace' = Append(ai_trace,
                                CallEvent(ai.text, [raised |-> FALSE, content |-> c]))
    /\ pc' = "ai_done"
    /\ hist' = Counted(hist, 1, 0)
    /\ UNCHANGED <<today, db, txn, socket_timeout, max_retries, feed_tasks,
                   task_idx, cl, gs>>

\* the call raises and attempt < max_retries - 1: sleep, double the delay
AI_FailRetry ==
    /\ pc = "ai_attempt"
    /\ CanRetry(ai.attempt, ai.max_retries)
    /\ ai' = [ai EXCEPT !.attempt = @ + 1, !.retry_delay = NextDelay(@)]
    /\ ai_trace' = ai_trace \o
           << CallEvent(ai.text, [raised |-> TRUE, content |-> None]),
              SleepEvent(ai.retry_delay) >>
    /\ hist' = Counted(hist, 1, 0)
    /\ UNCHANGED <<pc, today, db, txn, socket_timeout, max_retries,
                   feed_tasks, task_idx, cl, gs>>

\* the call raises on the last attempt: return None
AI_FailGiveUp ==
    /\ pc = "ai_attempt"
    /\ ~CanRetry(ai.attempt, ai.max_retries)
    /\ ai' = [ai EXCEPT !.result = None]
    /\ ai_trace' = Append(ai_trace,
                          CallEvent(ai.text, [raised |-> TRUE, content |-> None]))
    /\ pc' = "ai_done"
    /\ hist' = Counted(hist, 1, 0)
    /\ UNCHANGED <<today, db, txn, socket_timeout, max_retries, feed_tasks,
                   task_idx, cl, gs>>

\* The texts the summarizer is given when it is called alone: empty, short,
\* and around max_length.
TextInputs ==
    {Text(n) : n \in {0, 1, max_length - 1} \cup (max_length..(max_length + MaxExtra))}

\* get_summary_from_AI(client, model, text, logger, max_retries, retry_delay)
\* called on its own
AI_Call ==
    /\ pc = "ai_idle"
    /\ \E text \in TextInputs, mr \in 0..MaxCallRetries, delay \in 1..MaxDelay :
          /\ ai' = AI_Enter(text, mr, delay)
          /\ pc' = AI_EntryPc(mr)
    /\ ai_trace' = <<>>
    /\ UNCHANGED <<today, db, txn, socket_timeout, max_retries, feed_tasks,
                   task_idx, cl, gs, hist>>

\* ------------------------------------------------------------------- main()
\* if not api_key: return   (variant: the credential is not looked at)
StartPcUnchecked(api_key) == "cleanup"

StartPc(api_key) == IF api_key THEN "cleanup" ELSE "returned"

\* A new process starts main(): the credential is read; without it main
\* returns, with it the database is opened and the schema ensured.
Main_Start ==
    /\ pc = "idle"
    /\ \E api_key \in BOOLEAN :
          /\ pc' = StartPc(api_key)
          /\ hist' = [NoHist EXCEPT !.prev = hist.prev, !.api_key = api_key,
                                  !.metered = hist.metered]
    /\ socket_timeout' = NoTimeout
    /\ txn' = <<>>
    /\ UNCHANGED <<today, db, max_retries, feed_tasks, task_idx, cl, gs, ai,
                   ai_trace>>

\* cleanup_old_entries(conn, days_to_keep): DELETE ... ; rowcount; commit
cleanup_old_entries(days_to_keep, now) ==
    LET cutoff_date == StrftimeDate(MinusDays(now, days_to_keep))
        kept == SelectSeq(db, LAMBDA row : ~IsOld(row, cutoff_date))
    IN  /\ db' = kept
        /\ cl' = [days_to_keep |-> days_to_keep, now |-> now,
                  cutoff_date |-> cutoff_date,
                  deleted_count |-> Len(db) - Len(kept), before |-> db,
                  called |-> TRUE,
                  earlier |-> IF cl.called
                              THEN Append(cl.earlier, cl.deleted_count)
                              ELSE <<>>]

\* deleted_count = cleanup_old_entries(conn, days_to_keep)
Main_Cleanup ==
    /\ pc = "cleanup"
    /\ \E days_to_keep \in DaysChoices, now \in LocalNow :
          cleanup_old_entries(days_to_keep, now)
    /\ pc' = "cleaned"
    /\ hist' = [hist EXCEPT !.purges = @ + 1,
                            !.purged_new = @ \/ (hist.inserted > 0 /\ Len(db') < Len(db))]
    /\ UNCHANGED <<today, txn, socket_timeout, max_retries, feed_tasks,
                   task_idx, gs, ai, ai_trace>>

\* the DELETE or its commit raises sqlite3.Error: nothing in main catches it
Main_CleanupRaises ==
    /\ pc = "cleanup"
    /\ pc' = "crashed"
    /\ hist' = [hist EXCEPT !.purges = @ + 1]
    /\ UNCHANGED <<today, db, txn, socket_timeout, max_retries, feed_tasks,
                   task_idx, cl, gs, ai, ai_trace>>

\* if deleted_count > 0: the purge is logged; cleanup's locals are gone and
\* deleted_count is not read again
Main_LogCleanup ==
    /\ pc = "cleaned"
    /\ cl' = [NoCleanup EXCEPT !.called = TRUE]
    /\ hist' = [hist EXCEPT !.prev.clean = @ /\ cl.deleted_count = 0]
    /\ pc' = "prepare"
    /\ UNCHANGED <<today, db, txn, socket_timeout, max_retries, feed_tasks,
                   task_idx, gs, ai, ai_trace>>

\* max_retries and feed_tasks are read; no task: main returns
Main_Prepare ==
    /\ pc = "prepare"
    /\ \E mr \in 0..MaxRetries, tasks \in TaskLists :
          /\ max_retries' = mr
          /\ feed_tasks' = tasks
          /\ task_idx' = 1
          /\ pc' = IF tasks = <<>> THEN "returned" ELSE "feeds"
          /\ hist' = [hist EXCEPT
                 !.rerun = IF hist.prev.done /\ hist.prev.served
                              /\ hist.prev.tasks = tasks
                              /\ hist.prev.max_retries = mr
                           THEN (IF hist.prev.clean THEN "clean" ELSE "same")
                           ELSE "no",
                 !.prev = NoPrev]
    /\ UNCHANGED <<today, db, txn, socket_timeout, cl, gs, ai, ai_trace>>

\* for key, url, num_entries in feed_tasks: generate_summaries(...)
Main_CallFeed ==
    /\ pc = "feeds"
    /\ task_idx <= Len(feed_tasks)
    /\ gs' = [NoGs EXCEPT !.feed_name = feed_tasks[task_idx].key,
                          !.feed_url = feed_tasks[task_idx].url,
                          !.num_stories = feed_tasks[task_idx].num_entries,
                          !.rows0 = Len(db)]
    /\ pc' = "gs_fetch"
    /\ UNCHANGED <<today, db, txn, socket_timeout, max_retries, feed_tasks,
                   task_idx, cl, ai, ai_trace, hist>>

\* generate_summaries returned (it raises nothing): the loop goes on
Main_AfterFeed ==
    /\ pc = "gs_return"
    /\ task_idx' = task_idx + 1
    /\ hist' = [hist EXCEPT
           !.broken = @ \/ gs.outcome \in {"timeout", "error", "exception"},
           !.served = @ /\ gs.outcome = "stats",
           !.clean = @ /\ gs.outcome = "stats" /\ gs.failed = 0]
    /\ gs' = NoGs
    /\ pc' = "feeds"
    /\ UNCHANGED <<today, db, txn, socket_timeout, max_retries, feed_tasks,
                   cl, ai, ai_trace>>

\* Where main stands after its loop over feed_tasks: the connection is
\* closed and main is done   (variant: the purge is run after the feeds)
LoopDonePcPurges == "cleanup"

LoopDonePc == "main_done"

\* conn.close(): what the connection has not committed is rolled back
Main_Close ==
    /\ pc = "feeds"
    /\ task_idx > Len(feed_tasks)
    /\ txn' = <<>>
    /\ pc' = LoopDonePc
    /\ UNCHANGED <<today, db, socket_timeout, max_retries, feed_tasks,
                   task_idx, cl, gs, ai, ai_trace, hist>>

\* The process ends (main returned or died): its locals and its connection
\* are gone.
Main_Exit ==
    /\ pc \in {"main_done", "returned", "crashed"}
    /\ pc' = "idle"
    /\ txn' = <<>>
    /\ socket_timeout' = NoTimeout
    /\ max_retries' = 0
    /\ feed_tasks' = <<>>
    /\ task_idx' = 0
    /\ cl' = NoCleanup
    /\ gs' = NoGs
    /\ ai' = NoFrame
    /\ ai_trace' = <<>>
    /\ hist' = [NoHist EXCEPT !.metered = hist.metered, !.prev =
                   [done |-> pc = "main_done",
                    served |-> pc = "main_done" /\ hist.served,
                    clean |-> pc = "main_done" /\ hist.clean,
                    tasks |-> IF pc = "main_done" THEN feed_tasks ELSE <<>>,
                    max_retries |-> IF pc = "main_done" THEN max_retries ELSE 0]]
    /\ UNCHANGED <<today, db>>

\* A day passes between two runs.
Tick ==
    /\ pc = "idle"
    /\ today < MaxDay
    /\ today' = today + 1
    /\ hist' = [hist EXCEPT !.prev = NoPrev]
    /\ UNCHANGED <<pc, db, txn, socket_timeout, max_retries, feed_tasks,
                   task_idx, cl, gs, ai, ai_trace>>

\* ------------------------------------------------------- generate_summaries
\* processed += 1
Examined(g) == [g EXCEPT !.processed = @ + 1]

\* skipped += 1; continue
Skipped(g) == [g EXCEPT !.skipped = @ + 1, !.i = @ + 1]

\* failed += 1, and the loop goes on   (variant: the failure is not counted)
FailedUncounted(g) == [g EXCEPT !.i = @ + 1]

Failed(g) == [g EXCEPT !.failed = @ + 1, !.i = @ + 1]

\* added += 1, and the loop goes on
Added(g) == [g EXCEPT !.added = @ + 1, !.i = @ + 1]

\* except (TimeoutError, socket.timeout) ... except Exception: the exception
\* is logged and generate_summaries returns   (variant: only timeouts are
\* handled, and main's loop has no handler either)
RaisedPcUnhandled(kind) == IF kind = "timeout" THEN "gs_return" ELSE "crashed"

RaisedPc(kind) == "gs_return"

\* if not feed.entries: return   (variant: the loop is entered regardless)
FetchedPcUnchecked(entries) == "gs_loop"

FetchedPc(entries) == IF entries = <<>> THEN "gs_return" ELSE "gs_loop"

\* socket.setdefaulttimeout(timeout); feed = feedparser.parse(feed_url);
\* socket.setdefaulttimeout(original_timeout); no entries: return.
\* The feed serves its content, or nothing that parses into entries.
GS_Fetch ==
    /\ pc = "gs_fetch"
    /\ \E entries \in {FeedContent(gs.feed_url), <<>>} :
          /\ gs' = [gs EXCEPT !.original_timeout = socket_timeout,
                              !.entries = entries,
                              !.outcome = IF entries = <<>> THEN "empty" ELSE "none"]
          /\ pc' = FetchedPc(entries)
    /\ socket_timeout' = socket_timeout
    /\ hist' = [Counted(hist, 0, Min(gs.num_stories, Len(gs'.entries)))
                    EXCEPT !.fetched = Append(@, task_idx)]
    /\ UNCHANGED <<today, db, txn, max_retries, feed_tasks, task_idx, cl,
                   ai, ai_trace>>

\* feedparser.parse raises: TimeoutError or socket.timeout is logged by the
\* first handler, anything else by the second; the timeout set before the
\* call stays.
GS_FetchRaises ==
    /\ pc = "gs_fetch"
    /\ \E kind \in {"timeout", "error"} :
          /\ gs' = [gs EXCEPT !.original_timeout = socket_timeout,
                              !.outcome = kind]
          /\ pc' = RaisedPc(kind)
    /\ socket_timeout' = <<feed_timeout>>
    /\ hist' = [hist EXCEPT !.fetched = Append(@, task_idx)]
    /\ UNCHANGED <<today, db, txn, max_retries, feed_tasks, task_idx, cl,
                   ai, ai_trace>>

\* The entry the loop stands at, enumerate's i counted from 0   (variant:
\* the entries are taken from the end of the feed)
CurEntryReversed == gs.entries[Len(gs.entries) - gs.i]

CurEntry == gs.entries[gs.i + 1]

\* if i >= num_stories: break  (variants: the limit counts one more; there is
\* no limit)
LimitIgnored(i, num_stories) == FALSE

LimitReachedAfter(i, num_stories) == i > num_stories

LimitReached(i, num_stories) == i >= num_stories

LoopEnds == gs.i >= Len(gs.entries) \/ LimitReached(gs.i, gs.num_stories)

\* not hasattr(entry, 'title') or not hasattr(entry, 'description')
\* (variant: only the title is looked for)
MalformedNoTitle(entry) == ~entry.has_title

Malformed(entry) == ~entry.has_title \/ ~entry.has_description

\* the loop is over: the stats line is logged and the function returns
GS_Finish ==
    /\ pc = "gs_loop"
    /\ LoopEnds
    /\ gs' = [gs EXCEPT !.outcome = "stats"]
    /\ pc' = "gs_return"
    /\ UNCHANGED <<today, db, txn, socket_timeout, max_retries, feed_tasks,
                   task_idx, cl, ai, ai_trace, hist>>

\* processed += 1; the entry has no title or no description: skipped += 1
GS_SkipMalformed ==
    /\ pc = "gs_loop"
    /\ ~LoopEnds
    /\ Malformed(CurEntry)
    /\ gs' = Skipped(Examined(gs))
    /\ UNCHANGED <<pc, today, db, txn, socket_timeout, max_retries,
                   feed_tasks, task_idx, cl, ai, ai_trace, hist>>

\* processed += 1; the SELECT finds the title: skipped += 1
GS_SkipExisting ==
    /\ pc = "gs_loop"
    /\ ~LoopEnds
    /\ ~Malformed(CurEntry)
    /\ TitleExists(Visible, gs.feed_name, CurEntry.title)
    /\ gs' = [Skipped(Examined(gs)) EXCEPT !.checked = @ \cup {gs.i + 1}]
    /\ UNCHANGED <<pc, today, db, txn, socket_timeout, max_retries,
                   feed_tasks, task_idx, cl, ai, ai_trace, hist>>

\* processed += 1; the SELECT finds nothing:
\* summary = get_summary_from_AI(client, model, description, logger, max_retries)
GS_Summarize ==
    /\ pc = "gs_loop"
    /\ ~LoopEnds
    /\ ~Malformed(CurEntry)
    /\ ~TitleExists(Visible, gs.feed_name, CurEntry.title)
    /\ gs' = [Examined(gs) EXCEPT !.checked = @ \cup {gs.i + 1},
                                  !.summarized = @ \cup {gs.i + 1}]
    /\ ai' = AI_Enter(CurEntry.description, max_retries, default_retry_delay)
    /\ pc' = AI_EntryPc(max_retries)
    /\ UNCHANGED <<today, db, txn, socket_timeout, max_retries, feed_tasks,
                   task_idx, cl, ai_trace, hist>>

\* processed += 1; the SELECT raises sqlite3.Error: the handler of Exception
\* logs it and the function returns, the stats line never logged
GS_SelectRaises ==
    /\ pc = "gs_loop"
    /\ ~LoopEnds
    /\ ~Malformed(CurEntry)
    /\ gs' = [Examined(gs) EXCEPT !.checked = @ \cup {gs.i + 1},
                                  !.outcome = "exception"]
    /\ pc' = RaisedPc("exception")
    /\ UNCHANGED <<today, db, txn, socket_timeout, max_retries, feed_tasks,
                   task_idx, cl, ai, ai_trace, hist>>

\* link = entry.link if hasattr(entry, 'link') else ""
LinkOf(entry) == IF entry.has_link THEN entry.link ELSE ""

NewRow == Row(gs.feed_name, CurEntry.title, LinkOf(CurEntry), ai.result, today)

\* if summary is not None   (variant: if summary)
HasSummaryTruthy(summary) == summary # None /\ summary # ""

HasSummary(summary) == summary # None

\* summary is None: failed += 1
GS_NoSummary ==
    /\ pc = "ai_done"
    /\ ~HasSummary(ai.result)
    /\ gs' = Failed(gs)
    /\ ai' = NoFrame
    /\ ai_trace' = <<>>
    /\ pc' = "gs_loop"
    /\ UNCHANGED <<today, db, txn, socket_timeout, max_retries, feed_tasks,
                   task_idx, cl, hist>>

\* INSERT INTO news ...: a row is added   (variant: the row replaces the rows
\* of its feed)
InsertedReplacing(rows, row) ==
    SelectSeq(rows, LAMBDA r : r.feed # row.feed) \o <<row>>

Inserted(rows, row) == Append(rows, row)

\* INSERT and conn.commit() succeed: the row, and whatever the connection
\* still held uncommitted, is committed; added += 1
GS_Insert ==
    /\ pc = "ai_done"
    /\ HasSummary(ai.result)
    /\ db' = Inserted(db \o txn, NewRow)
    /\ txn' = <<>>
    /\ gs' = [Added(gs) EXCEPT !.stored = @ \cup {gs.i + 1}]
    /\ hist' = [hist EXCEPT !.inserted = @ + Len(txn) + 1]
    /\ ai' = NoFrame
    /\ ai_trace' = <<>>
    /\ pc' = "gs_loop"
    /\ UNCHANGED <<today, socket_timeout, max_retries, feed_tasks,
                   task_idx, cl>>

\* the INSERT raises sqlite3.Error: no row; failed += 1
GS_InsertRaises ==
    /\ pc = "ai_done"
    /\ HasSummary(ai.result)
    /\ gs' = Failed(gs)
    /\ ai' = NoFrame
    /\ ai_trace' = <<>>
    /\ pc' = "gs_loop"
    /\ UNCHANGED <<today, db, txn, socket_timeout, max_retries, feed_tasks,
                   task_idx, cl, hist>>

\* the INSERT succeeds and conn.commit() raises sqlite3.Error: failed += 1.
\* SQLite either leaves the transaction open, the row in it (SQLITE_BUSY), or
\* rolls it back (SQLITE_FULL, SQLITE_IOERR).
GS_CommitRaises ==
    /\ pc = "ai_done"
    /\ HasSummary(ai.result)
    /\ \E kept \in BOOLEAN :
          txn' = IF kept THEN Append(txn, NewRow) ELSE <<>>
    /\ gs' = [Failed(gs) EXCEPT !.stored = @ \cup {gs.i + 1}]
    /\ ai' = NoFrame
    /\ ai_trace' = <<>>
    /\ pc' = "gs_loop"
    /\ UNCHANGED <<today, db, socket_timeout, max_retries, feed_tasks,
                   task_idx, cl, hist>>

\* ----------------------------------------------------------- specifications
Next ==
    \/ Main_Start
    \/ Main_Cleanup
    \/ Main_CleanupRaises
    \/ Main_LogCleanup
    \/ Main_Prepare
    \/ Main_CallFeed
    \/ Main_AfterFeed
    \/ Main_Close
    \/ Main_Exit
    \/ Tick
    \/ GS_Fetch
    \/ GS_FetchRaises
    \/ GS_Finish
    \/ GS_SkipMalformed
    \/ GS_SkipExisting
    \/ GS_Summarize
    \/ GS_SelectRaises
    \/ GS_NoSummary
    \/ GS_Insert
    \/ GS_InsertRaises
    \/ GS_CommitRaises
    \/ AI_Success
    \/ AI_FailRetry
    \/ AI_FailGiveUp

Spec == Init /\ [][Next]_vars

\* The summarizer alone: one call of get_summary_from_AI on a drawn input.
InitAI ==
    /\ pc = "ai_idle"
    /\ today = 0
    /\ db = <<>>
    /\ txn = <<>>
    /\ socket_timeout = NoTimeout
    /\ max_retries = 0
    /\ feed_tasks = <<>>
    /\ task_idx = 0
    /\ cl = NoCleanup
    /\ gs = NoGs
    /\ ai = NoFrame
    /\ ai_trace = <<>>
    /\ hist = NoHist

NextAI ==
    \/ AI_Call
    \/ AI_Success
    \/ AI_FailRetry
    \/ AI_FailGiveUp

SpecAI == InitAI /\ [][NextAI]_vars

\* cleanup_old_entries alone, as src/tests/test_core.py calls it: on a table
\* of rows with distinct titles dated up to today, and once more with the same
\* days_to_keep while the local date is the same.
Stores(day) ==
    {<<>>}
        \cup {<<Row("a", t, "l", "abstract", d)>> : t \in {"t1", "t2"}, d \in 0..day}
        \cup {<<Row("a", t1, "l", "abstract", d1), Row("b", t2, "l", "abstract", d2)>> :
                 t1 \in {"t1"}, t2 \in {"t2"}, d1 \in 0..day, d2 \in 0..day}

InitCleanup ==
    /\ pc = "cl_idle"
    /\ today \in 0..MaxDay
    /\ db \in Stores(today)
    /\ txn = <<>>
    /\ socket_timeout = NoTimeout
    /\ max_retries = 0
    /\ feed_tasks = <<>>
    /\ task_idx = 0
    /\ cl = NoCleanup
    /\ gs = NoGs
    /\ ai = NoFrame
    /\ ai_trace = <<>>
    /\ hist = NoHist

\* cleanup_old_entries(conn, days_to_keep)
CL_Call ==
    /\ pc = "cl_idle"
    /\ \E days_to_keep \in DaysChoices, now \in LocalNow :
          cleanup_old_entries(days_to_keep, now)
    /\ pc' = "cl_once"
    /\ UNCHANGED <<today, txn, socket_timeout, max_retries, feed_tasks,
                   task_idx, gs, ai, ai_trace, hist>>

\* cleanup_old_entries(conn, days_to_keep) again: nothing was inserted, the
\* date is the same, the time of day any.
CL_Again ==
    /\ pc = "cl_once"
    /\ \E now \in LocalNow :
          /\ now.day = cl.now.day
          /\ cleanup_old_entries(cl.days_to_keep, now)
    /\ pc' = "cl_twice"
    /\ UNCHANGED <<today, txn, socket_timeout, max_retries, feed_tasks,
                   task_idx, gs, ai, ai_trace, hist>>

NextCleanup ==
    \/ CL_Call
    \/ CL_Again

SpecCleanup == InitCleanup /\ [][NextCleanup]_vars

\* One run of main() to its end, on a table earlier runs left: every call of
\* the fetcher, the service and the store returns or raises, so the process
\* always takes its next step.
InitRun ==
    /\ pc = "idle"
    /\ today \in 0..MaxDay
    /\ db \in Stores(today)
    /\ txn = <<>>
    /\ socket_timeout = NoTimeout
    /\ max_retries = 0
    /\ feed_tasks = <<>>
    /\ task_idx = 0
    /\ cl = NoCleanup
    /\ gs = NoGs
    /\ ai = NoFrame
    /\ ai_trace = <<>>
    /\ hist = [NoHist EXCEPT !.metered = TRUE]

NextRun ==
    \/ Main_Start
    \/ Main_Cleanup
    \/ Main_CleanupRaises
    \/ Main_LogCleanup
    \/ Main_Prepare
    \/ Main_CallFeed
    \/ Main_AfterFeed
    \/ Main_Close
    \/ GS_Fetch
    \/ GS_FetchRaises
    \/ GS_Finish
    \/ GS_SkipMalformed
    \/ GS_SkipExisting
    \/ GS_Summarize
    \/ GS_SelectRaises
    \/ GS_NoSummary
    \/ GS_Insert
    \/ GS_InsertRaises
    \/ GS_CommitRaises
    \/ AI_Success
    \/ AI_FailRetry
    \/ AI_FailGiveUp

SpecRun == InitRun /\ [][NextRun]_vars /\ WF_vars(NextRun)

\* ------------------------------------------------------------------ claims
\* The program points inside generate_summaries and get_summary_from_AI.
FeedPcs == {"gs_fetch", "gs_loop", "gs_return", "ai_attempt", "ai_done"}

\* The calls of the service the current get_summary_from_AI made, in order.
Calls == SelectSeq(ai_trace, LAMBDA e : e.ev = "call")

\* C1: at most one record per title is in the store, whatever runs, feeds and
\* entries came before: no two rows the connection reads (committed, or
\* inserted and not yet committed) share a title.
C1_OneRecordPerTitle ==
    \A j, k \in 1..Len(Visible) :
        j # k => Visible[j].title # Visible[k].title

\* C1 witness: in feed "a" the first entry was inserted and the third, which
\* repeats its title, was checked against the store and not summarized.
C1_Witness ==
    /\ pc = "gs_loop"
    /\ gs.feed_name = "a"
    /\ 1 \in gs.stored
    /\ 3 \in gs.checked
    /\ 3 \notin gs.summarized
    /\ \E k \in 1..Len(db) : db[k].title = "t1"

C3_RetryBound ==
    (pc \in {"ai_attempt", "ai_done"} /\ ai.max_retries >= 1) =>
        LET n == Len(Calls)
        IN  /\ \A j \in 1..(n - 1) : Calls[j].out.raised
            /\ n <= ai.max_retries
            /\ pc = "ai_attempt" =>
                  /\ n < ai.max_retries
                  /\ n = ai.attempt
                  /\ \A j \in 1..n : Calls[j].out.raised
            /\ pc = "ai_done" =>
                  /\ n >= 1
                  /\ IF Calls[n].out.raised
                     THEN n = ai.max_retries /\ ai.result = None
                     ELSE ai.result = Calls[n].out.content

\* C3 witness: with max_retries = 3 the service failed twice and then
\* answered "abstract", which is returned after three calls.
C3_Witness ==
    /\ pc = "ai_done"
    /\ ai.max_retries = 3
    /\ Len(Calls) = 3
    /\ Calls[1].out.raised
    /\ Calls[2].out.raised
    /\ ~Calls[3].out.raised
    /\ ai.result = "abstract"

\* C4: when cleanup_old_entries has returned, the table holds exactly the
\* rows it held before whose created_date is not before (today - days), in
\* their order and unchanged, today being the date of datetime.now(); and the
\* count returned is the number of rows that were before that date.
C4_CleanupExact ==
    pc = "cleaned" =>
        LET cutoff == cl.now.day - cl.days_to_keep
            old == {k \in 1..Len(cl.before) : cl.before[k].created_date < cutoff}
        IN  /\ db = SelectSeq(cl.before, LAMBDA row : row.created_date >= cutoff)
            /\ cl.deleted_count = Cardinality(old)
            /\ Len(db) = Len(cl.before) - cl.deleted_count

\* C4 witness: a purge over two rows removed the older one and kept the one
\* dated exactly today - days.
C4_Witness ==
    /\ pc = "cleaned"
    /\ Len(cl.before) = 2
    /\ cl.deleted_count = 1
    /\ Len(db) = 1
    /\ db[1].created_date = cl.now.day - cl.days_to_keep

\* C5: in a run the feed tasks are fetched once each, in order, whatever the
\* earlier ones did: the tasks fetched so far are exactly those the loop has
\* reached, and a run never ends having fetched only some of its tasks.
C5_EveryFeedAttempted ==
    LET upto(n) == [k \in 1..n |-> k]
    IN  /\ pc = "feeds" => hist.fetched = upto(task_idx - 1)
        /\ pc = "gs_fetch" => hist.fetched = upto(task_idx - 1)
        /\ pc \in {"gs_loop", "gs_return", "ai_attempt", "ai_done"} =>
              hist.fetched = upto(task_idx)
        /\ pc = "main_done" => hist.fetched = upto(Len(feed_tasks))
        /\ pc \in {"returned", "crashed"} => hist.fetched = <<>>

\* C5 witness: the first feed ended in a timeout, an error or an exception
\* and the second feed of the same run has stored an entry.
C5_Witness ==
    /\ pc = "gs_return"
    /\ task_idx = 2
    /\ hist.broken
    /\ gs.outcome = "stats"
    /\ gs.added >= 1
    /\ \E k \in 1..Len(db) : db[k].feed = "b"

\* The entries a feed with n entries and story limit L examines.
Prefix(L, n) == 1..Min(L, n)

\* C6: of a feed that served n >= 1 entries with story limit L, only the
\* first min(L, n) entries are checked against the store, summarized or
\* stored, whatever the examined entries came to; processed never exceeds
\* min(L, n) and equals it when the feed's stats are logged.
C6_ExaminesPrefix ==
    (pc \in {"gs_loop", "gs_return", "ai_attempt", "ai_done"}
        /\ Len(gs.entries) >= 1) =>
        LET L == gs.num_stories
            n == Len(gs.entries)
        IN  /\ gs.checked \subseteq Prefix(L, n)
            /\ gs.summarized \subseteq Prefix(L, n)
            /\ gs.stored \subseteq Prefix(L, n)
            /\ gs.processed <= Min(L, n)
            /\ (pc = "gs_return" /\ gs.outcome = "stats") =>
                  gs.processed = Min(L, n)

\* C6 witness: feed "a" with three entries and story limit 2, the second
\* entry's title stored beforehand: processed 2, added 1, skipped 1, failed 0,
\* the third entry untouched.
C6_Witness ==
    /\ pc = "gs_return"
    /\ gs.outcome = "stats"
    /\ gs.feed_name = "a"
    /\ gs.num_stories = 2
    /\ Len(gs.entries) = 3
    /\ gs.processed = 2
    /\ gs.added = 1
    /\ gs.skipped = 1
    /\ gs.failed = 0
    /\ gs.stored = {1}
    /\ gs.checked = {1, 2}
    /\ gs.summarized = {1}

\* C7 as stated: every record in the store has a non-empty summary.
C7_SummaryNonEmpty ==
    \A k \in 1..Len(db) : db[k].summary # "" /\ db[k].summary # None

\* C8: every text sent to the service in a call of get_summary_from_AI is
\* the text given when that has at most max_length characters, and otherwise
\* has max_length characters, each the given text's at that place; so every
\* retry sends what the first attempt sent.
C8_SentTextCapped ==
    pc \in {"ai_attempt", "ai_done"} =>
        \A j \in 1..Len(Calls) :
            /\ Len(ai.arg) <= max_length => Calls[j].text = ai.arg
            /\ Len(ai.arg) > max_length =>
                  /\ Len(Calls[j].text) = max_length
                  /\ \A c \in 1..max_length : Calls[j].text[c] = ai.arg[c]
            /\ Calls[j].text = Calls[1].text

\* C8 witness: a text of more than max_length characters was sent three
\* times, the first two attempts failing.
C8_Witness ==
    /\ pc = "ai_done"
    /\ Len(ai.arg) > max_length
    /\ Len(Calls) = 3
    /\ Calls[1].out.raised
    /\ Calls[2].out.raised

\* C9: when a feed's stats are logged (its processing completes),
\* processed == added + skipped + failed; the same holds each time the loop
\* comes back to its head.
C9_CountersAddUp ==
    (pc = "gs_loop" \/ (pc = "gs_return" /\ gs.outcome = "stats")) =>
        gs.processed = gs.added + gs.skipped + gs.failed

\* C9 witness: a feed's stats are logged with an entry added, one skipped and
\* one failed.
C9_Witness ==
    /\ pc = "gs_return"
    /\ gs.outcome = "stats"
    /\ gs.added = 1
    /\ gs.skipped = 1
    /\ gs.failed = 1
    /\ gs.processed = 3

\* C10: a run purges at most once; when the purge is about to run no feed
\* has been fetched and no row committed in the run; every feed is processed
\* after the one purge; and the purge never removes a row of its own run.
C10_PurgeOnceBeforeFeeds ==
    /\ hist.purges <= 1
    /\ pc = "cleanup" =>
          hist.purges = 0 /\ hist.fetched = <<>> /\ hist.inserted = 0
    /\ pc \in FeedPcs \cup {"feeds", "main_done"} =>
          hist.purges = 1 /\ cl.called
    /\ hist.fetched # <<>> => hist.purges = 1
    /\ ~hist.purged_new

\* C10 witness: a run that purged once has fetched both its feeds, committed
\* two rows and is done.
C10_Witness ==
    /\ pc = "main_done"
    /\ hist.purges = 1
    /\ hist.fetched = <<1, 2>>
    /\ hist.inserted = 2
    /\ Len(db) = 2

\* C11: a second cleanup_old_entries with the same days_to_keep, nothing
\* inserted and the date unchanged since the first, deletes no row, returns 0
\* and leaves the table as the first call left it.
C11_CleanupIdempotent ==
    pc = "cl_twice" =>
        /\ cl.deleted_count = 0
        /\ db = cl.before

\* C11 witness: the first call deleted one of two rows, the second call ran at
\* another time of the same day and the other row is still there.
C11_Witness ==
    /\ pc = "cl_twice"
    /\ cl.earlier = <<1>>
    /\ Len(db) = 1
    /\ db[1].created_date = cl.cutoff_date

\* What a run without the credential has done once it is under way: main has
\* returned, the purge did not run, no feed was fetched, the summarizer was
\* not entered, nothing was inserted or left uncommitted.
NoCredentialNoEffect ==
    (pc # "idle" /\ ~hist.api_key) =>
        /\ pc = "returned"
        /\ hist.purges = 0
        /\ ~cl.called
        /\ hist.fetched = <<>>
        /\ hist.inserted = 0
        /\ txn = <<>>
        /\ ai = NoFrame
        /\ ai_trace = <<>>

\* C12: in a run without the credential main returns before anything else:
\* no purge, no fetch, no summarizer call, no insert; and no step of such a
\* run changes the table.
C12_NoCredentialNoEffect ==
    /\ []NoCredentialNoEffect
    /\ [][(~hist.api_key \/ ~hist'.api_key) => db' = db]_vars

\* C12 witness: a run without the credential has returned; the table holds a
\* row of the day before and a row of today.
C12_Witness ==
    /\ pc = "returned"
    /\ ~hist.api_key
    /\ today = 1
    /\ Len(db) = 2
    /\ db[1].created_date = 0
    /\ db[2].created_date = 1

\* C13: in a call of get_summary_from_AI with initial delay d, the i-th
\* attempt, when it fails and i < max_retries, is followed at once by one wait
\* of d * 2^(i-1); every wait follows a failed attempt and comes before the
\* next attempt; after the last failed attempt and after a success there is
\* no wait.
C13_Backoff ==
    pc \in {"ai_attempt", "ai_done"} =>
        LET n == Len(ai_trace)
            CallNo(p) == Len(SelectSeq(SubSeq(ai_trace, 1, p),
                                       LAMBDA e : e.ev = "call"))
        IN  /\ \A p \in 1..n :
                  ai_trace[p].ev = "sleep" =>
                      /\ p > 1
                      /\ ai_trace[p - 1].ev = "call"
                      /\ ai_trace[p - 1].out.raised
                      /\ CallNo(p) < ai.max_retries
                      /\ ai_trace[p].delay = ai.arg_delay * 2 ^ (CallNo(p) - 1)
                      /\ IF p < n THEN ai_trace[p + 1].ev = "call"
                                  ELSE pc = "ai_attempt"
            /\ \A p \in 1..n :
                  ai_trace[p].ev = "call" =>
                      IF ai_trace[p].out.raised /\ CallNo(p) < ai.max_retries
                      THEN p < n /\ ai_trace[p + 1].ev = "sleep"
                      ELSE p = n /\ pc = "ai_done"

\* C13 witness: with initial delay 2 and four attempts allowed, three attempts
\* failed, the waits were 2, 4 and 8, and the fourth attempt returned.
C13_Witness ==
    /\ pc = "ai_done"
    /\ ai.arg_delay = 2
    /\ ai.max_retries = 4
    /\ Len(ai_trace) = 7
    /\ ai_trace[2].delay = 2
    /\ ai_trace[4].delay = 4
    /\ ai_trace[6].delay = 8
    /\ ~ai_trace[7].out.raised

\* C14 as stated: a feed that served entries is never aborted by a failure of
\* the store: when generate_summaries returns, the first min(L, n) entries
\* were all examined, each counted as added, skipped or failed, and the stats
\* were logged.
C14_StoreFailureCounted ==
    (pc = "gs_return" /\ gs.entries # <<>>) =>
        /\ gs.outcome = "stats"
        /\ gs.processed = Min(gs.num_stories, Len(gs.entries))
        /\ gs.processed = gs.added + gs.skipped + gs.failed

\* The entry at the loop's position has a title and a description, and no
\* row the connection reads has its title.
WellFormedAndNew ==
    /\ CurEntry.has_title
    /\ CurEntry.has_description
    /\ \A k \in 1..Len(Visible) : Visible[k].title # CurEntry.title

\* While the summarizer runs, the entry it runs for is well-formed and its
\* title is not stored; only such entries were ever summarized.
SummarizedAreWellFormed ==
    /\ pc \in {"ai_attempt", "ai_done"} => WellFormedAndNew
    /\ \A k \in gs.summarized :
          gs.entries[k].has_title /\ gs.entries[k].has_description

\* C15: the summarizer is entered only for an examined entry that has a title
\* and a description and whose title no stored row has at the check; the
\* step that examines any other entry enters no summarizer, changes no row,
\* and counts the entry skipped (an entry without title or description
\* always; one whose title is stored unless the check itself raises).
C15_SummarizerOnlyForNew ==
    /\ []SummarizedAreWellFormed
    /\ [][(pc = "gs_loop" /\ ~LoopEnds /\ ~WellFormedAndNew) =>
              /\ pc' \notin {"ai_attempt", "ai_done"}
              /\ ai' = ai
              /\ ai_trace' = ai_trace
              /\ db' = db
              /\ txn' = txn
              /\ gs'.summarized = gs.summarized
              /\ gs'.added = gs.added
              /\ gs'.failed = gs.failed
              /\ \/ gs'.skipped = gs.skipped + 1 /\ pc' = "gs_loop"
                 \/ /\ gs'.outcome = "exception"
                    /\ CurEntry.has_title
                    /\ CurEntry.has_description]_vars

\* C15 witness: feed "b" was examined with its first entry's title stored and
\* its second entry without a description: both skipped, the summarizer not
\* called, nothing added.
C15_Witness ==
    /\ pc = "gs_return"
    /\ gs.feed_name = "b"
    /\ gs.outcome = "stats"
    /\ gs.processed = 2
    /\ gs.skipped = 2
    /\ gs.checked = {1}
    /\ gs.summarized = {}
    /\ gs.added = 0

\* C16 as stated: when a feed's stats are logged, the rows committed since
\* generate_summaries was called are as many as it counted added.
C16_AddedAreTheNewRecords ==
    (pc = "gs_return" /\ gs.outcome = "stats") =>
        Len(db) - gs.rows0 = gs.added

\* A feed whose fetch timed out, raised or served no entry: generate_summaries
\* is at its return, no entry was examined, the summarizer was not entered
\* and the table has the rows it had at the call.
FailedFetchNoEffect ==
    gs.outcome \in {"timeout", "error", "empty"} =>
        /\ pc = "gs_return"
        /\ gs.processed = 0
        /\ gs.checked = {}
        /\ gs.summarized = {}
        /\ gs.stored = {}
        /\ gs.added = 0
        /\ ai = NoFrame
        /\ ai_trace = <<>>
        /\ Len(db) = gs.rows0

\* C17: when the fetch of a feed times out, raises or serves no entry,
\* generate_summaries returns at once: no entry is examined, the summarizer
\* is not called for the feed, and no step of the call changes a row,
\* committed or pending.
C17_FailedFetchReturns ==
    /\ []FailedFetchNoEffect
    /\ [][(pc = "gs_fetch" \/ gs.outcome \in {"timeout", "error", "empty"}) =>
              db' = db /\ txn' = txn]_vars

\* C17 witness: the second feed's fetch timed out after the first feed had
\* stored a row; the table is as it was when the second feed was called.
C17_Witness ==
    /\ pc = "gs_return"
    /\ task_idx = 2
    /\ gs.outcome = "timeout"
    /\ gs.rows0 >= 1
    /\ Len(db) = gs.rows0
    /\ hist.inserted >= 1

\* Inside a feed: the feed is the task_idx-th configured task, the fetches so
\* far are those of tasks 1, 2, ... in order, the entries examined are the
\* first gs.processed, and while the summarizer runs it runs on the
\* description of the entry just examined.
InFeedInOrder ==
    pc \in FeedPcs =>
        /\ task_idx \in 1..Len(feed_tasks)
        /\ gs.feed_name = feed_tasks[task_idx].key
        /\ gs.feed_url = feed_tasks[task_idx].url
        /\ Len(hist.fetched) \in {task_idx - 1, task_idx}
        /\ \A k \in 1..Len(hist.fetched) : hist.fetched[k] = k
        /\ gs.checked \cup gs.summarized \cup gs.stored \subseteq 1..gs.processed
        /\ pc = "gs_loop" => gs.processed = gs.i
        /\ pc \in {"ai_attempt", "ai_done"} =>
              /\ gs.processed = gs.i + 1
              /\ gs.i + 1 \in gs.summarized
              /\ ai.arg = gs.entries[gs.i + 1].description

\* A step in order: main moves to the next task only from the return of
\* generate_summaries, by one; the loop over entries moves by one entry, after
\* the entry's summarizer call and INSERT; a row is inserted only inside a
\* feed, for the entry the loop stands at, under the feed's name.
StepInOrder ==
    /\ (pc \in FeedPcs /\ task_idx' # task_idx) =>
          (pc = "gs_return" /\ task_idx' = task_idx + 1 /\ pc' = "feeds")
    /\ (pc \in FeedPcs /\ pc' \in FeedPcs /\ gs'.i # gs.i) =>
          /\ gs'.i = gs.i + 1
          /\ pc \in {"gs_loop", "ai_done"}
          /\ pc' = "gs_loop"
    /\ pc \in FeedPcs =>
          \/ db' \o txn' = db \o txn
          \/ db' \o txn' = db
          \/ /\ pc = "ai_done"
             /\ Len(db' \o txn') = Len(db \o txn) + 1
             /\ SubSeq(db' \o txn', 1, Len(db \o txn)) = db \o txn
             /\ (db' \o txn')[Len(db \o txn) + 1].feed = feed_tasks[task_idx].key
             /\ (db' \o txn')[Len(db \o txn) + 1].title = gs.entries[gs.i + 1].title
    /\ pc \notin FeedPcs => Len(db' \o txn') <= Len(db \o txn)

\* C18: feeds are handled one after the other in the configured order and
\* the entries of a feed in the order served: every fetch, summarizer call
\* and INSERT belongs to the feed and the entry the loops stand at, and the
\* loops move forward by one, after the entry or the feed is done with.
C18_Sequential ==
    /\ []InFeedInOrder
    /\ [][StepInOrder]_vars

\* C18 witness: the second feed stands at its second entry after storing its
\* first; the row of the first feed comes before it in the table.
C18_Witness ==
    /\ pc = "gs_loop"
    /\ task_idx = 2
    /\ gs.i = 1
    /\ gs.stored = {1}
    /\ Len(db) = 2
    /\ db[1].feed = "a"
    /\ db[2].feed = "b"
    /\ hist.fetched = <<1, 2>>

\* The committed rows before a step are all there after it, unchanged and in
\* their places.
RowsKept ==
    /\ Len(db') >= Len(db)
    /\ SubSeq(db', 1, Len(db)) = db

\* C19: no step of generate_summaries or of the summarizer deletes or changes
\* a committed row: the table only grows, each row keeping its feed, title,
\* link, summary and created_date; the only step that removes a row is the
\* purge.
C19_ProcessingKeepsRecords ==
    [][/\ pc \in FeedPcs => RowsKept
       /\ ~RowsKept => pc = "cleanup"]_vars

\* C19 witness: a feed has added today's row to a table that held a row of the
\* day before when the feed was called; that row is still the first.
C19_Witness ==
    /\ pc = "gs_loop"
    /\ today = 1
    /\ gs.rows0 = 1
    /\ gs.added = 1
    /\ Len(db) = 2
    /\ db[1].created_date = 0
    /\ db[2].created_date = 1

\* C20 as stated: whenever generate_summaries returns, the default socket
\* timeout of the process is what it was when the function was called.
C20_TimeoutRestored ==
    pc = "gs_return" => socket_timeout = gs.original_timeout

\* The service calls of the run so far are at most max_retries times the sum,
\* over the feeds fetched so far, of min(story limit, entries served).
CallsWithinBudget == hist.calls <= max_retries * hist.budget

====
